---- MODULE Spec2Model ----
(***************************************************************************)
(* A state-machine model of the openedx-ledger core: the Transaction and   *)
(* Reversal tables, Ledger.balance(), and the api functions                *)
(* create_transaction, reverse_full_transaction and create_adjustment.     *)
(* In Spec, SpecCreate and SpecAdjustment every api call is one atomic      *)
(* step: the calls run inside django.db.transaction.atomic and either      *)
(* commit or roll back whole.  SpecLock is the ledger lock manager alone,  *)
(* and SpecConcurrent runs create_transaction step by step (lock, balance  *)
(* check, get_or_create, release) for actors that interleave.              *)
(* SpecAdjust, SpecDeposit and SpecFunding add create_adjustment and       *)
(* create_deposit to plain transactions, SpecLedger starts from an empty   *)
(* Ledger table and runs create_ledger, and SpecBalance reads the balance. *)
(* SpecUser records lms_user_id on transactions, SpecKey builds            *)
(* idempotency keys from metadata, SpecView posts to the admin reversal    *)
(* view, SpecConcurrentReversal interleaves reversals with the steps of    *)
(* create_transaction, and SpecConcurrentAdjustment runs create_adjustment *)
(* step by step with rows that are invisible until its block commits.      *)
(***************************************************************************)
EXTENDS Integers, FiniteSets, Sequences, TLC

VARIABLES
    transactions,   \* rows of the Transaction table
    reversals,      \* rows of the Reversal table
    adjustments,    \* rows of the Adjustment table
    deposits,       \* rows of the Deposit table
    ledgers,        \* rows of the Ledger table
    locks,          \* the locks currently held, as <<ledger, holder>> pairs
    calls,          \* per actor, the call it is inside of and how far it got
    result          \* outcome of the last call: what it returned, raised and sent

vars == <<transactions, reversals, adjustments, deposits, ledgers, locks, calls, result>>

----------------------------------------------------------------------------
(* Bounds of the model *)

\* most rows the Transaction table is allowed to grow to
MaxTx == 2

Ledgers == {"L1", "L2"}
\* the actors (threads, processes) that call into the ledger at the same time
Actors == {"a1", "a2"}
\* the ledgers create_adjustment is called on
AdjustmentLedgers == {"L1"}
\* idempotency keys supplied by callers for transactions
Keys == {"k1", "k2"}
\* idempotency keys supplied by callers for reversals
ReversalKeys == {"r1", "r2"}
\* deposit uuids and quantities supplied by callers
DepositUuids == {201}
DepositQuantities == {-1, 0, 1, 2}
\* adjustment uuids supplied by callers (the admin passes its stub uuid); the
\* uuids generated by the model default are 1, 2, ...
AdjustmentUuids == {101}
\* quantities supplied by callers: a credit, a debit it covers and one it does not
Quantities == {-2, -1, 1}
\* states callers create a transaction in: the default, and the one
\* create_adjustment passes
InitialStates == {"created", "committed"}
\* the ledgers created with an initial deposit, its amount and its key
DepositedLedgers == {"L1"}
InitialDeposit == 1
InitialDepositKey == "initial-deposit"
\* the initial_deposit arguments of create_ledger; 0 stands for None as well
InitialDepositQuantities == {-1, 0, 1, 2}
\* the keyword arguments that document an initial deposit
SalesContractFields == {"sales_contract_reference_id", "sales_contract_reference_provider"}
\* the metadata keyword arguments create_ledger is called with
LedgerMetadata == {{}, SalesContractFields}
\* the keyword names and values callers pass as transaction metadata
MetadataFields == {"lms_user_id", "content_key", "course_title"}
MetadataValues == {"v1", "v2"}
MetadataItems == MetadataFields \X MetadataValues
\* keyword arguments in the order of the call, no name twice
Metadata ==
    {<<>>} \cup {<<item>> : item \in MetadataItems}
    \cup {<<i, j>> : <<i, j>> \in {pair \in MetadataItems \X MetadataItems :
                                       pair[1][1] # pair[2][1]}}
\* the quantities keys are made for
KeyQuantities == {1, 2}
\* the values uuid4() hands out
Uuid4s == {"uuid-a", "uuid-b"}
\* Python's None, for an idempotency key and for a uuid
None == "None"
NoUuid == 0
\* lms_user_id=None, the default of create_transaction
NoUser == 0
\* the learners transactions are created for
Users == {1, 2}

----------------------------------------------------------------------------
(* models.py: choices and rows *)

CREATED == "created"
PENDING == "pending"
COMMITTED == "committed"
FAILED == "failed"
TransactionStateChoices == {CREATED, PENDING, COMMITTED}
USD_CENTS == "usd_cents"
SEATS == "seats"
UnitChoices == {USD_CENTS, SEATS}
\* the states a row's state column can hold: the choices, plus FAILED
States == TransactionStateChoices \cup {FAILED}

\* A Transaction row is named by <<ledger, idempotency_key>> (unique_together)
\* and a Reversal row by its transaction and its idempotency_key; the uuid
\* primary keys, random and never reused, are not modelled.
TxId(t) == <<t.ledger, t.idempotency_key>>
ReversalId(r) == <<r.transaction[1], r.transaction[2], r.idempotency_key>>

\* the return value of a call that raised or returns nothing
NoRow == <<>>

\* an actor that is inside no call
Idle ==
    [pc |-> "idle", ledger |-> None, quantity |-> 0, idempotency_key |-> None,
     state |-> None, err |-> "ok", ret |-> NoRow]

\* a number no earlier row of the table was given (stands for uuid4())
NextUuid(table) == Cardinality(table) + 1

\* Transaction.objects.filter(ledger=ledger)
LedgerTransactions(ledger) == {t \in transactions : t.ledger = ledger}

\* transaction.reversal, as the set of Reversal rows pointing at the transaction
ReversalsOf(t) == {r \in reversals : r.transaction = TxId(t)}

\* transaction.get_adjustment(): the Adjustment rows whose transaction is t
AdjustmentsOf(t) == {a \in adjustments : a.transaction = TxId(t)}

RECURSIVE SumQuantity(_)
\* models.Sum('quantity') over a set of rows, Coalesce(..., 0) when it is empty
SumQuantity(rows) ==
    IF rows = {} THEN 0
    ELSE LET r == CHOOSE x \in rows : TRUE
         IN r.quantity + SumQuantity(rows \ {r})

\* leaves the reversals out of the sum
subset_balanceNoReversals(ledger, transactions_queryset) ==
    SumQuantity({t \in transactions_queryset : t.ledger = ledger})

\* sums the queryset as given, rows of other ledgers included
subset_balanceUnfiltered(ledger, transactions_queryset) ==
    SumQuantity(transactions_queryset)
    + SumQuantity({r \in reversals :
                     \E t \in transactions_queryset : r.transaction = TxId(t)})

\* Ledger.subset_balance: filter(ledger=self), then per row
\* Coalesce(Sum(quantity), 0) + Coalesce(Sum(reversal__quantity), 0), summed
subset_balance(ledger, transactions_queryset) ==
    LET rows == {t \in transactions_queryset : t.ledger = ledger}
    IN SumQuantity(rows)
       + SumQuantity({r \in reversals : \E t \in rows : r.transaction = TxId(t)})

\* Ledger.balance
balance(ledger) == subset_balance(ledger, LedgerTransactions(ledger))

\* the keyword arguments a caller passes to Ledger.balance
BalanceArguments == {{}, {"committed_only"}}

\* a call ledger.balance(**kwargs): balance(self) takes no argument besides
\* the ledger, so any keyword argument is a TypeError before the body runs
balance_call(ledger, kwargs) ==
    IF kwargs # {}
    THEN [err |-> "TypeError", ret |-> NoRow]
    ELSE [err |-> "ok", ret |-> balance(ledger)]

\* a Ledger row; a ledger is named by its idempotency_key (unique=True)
NewLedger(unit, idempotency_key, metadata) ==
    [idempotency_key |-> idempotency_key, unit |-> unit, metadata |-> metadata]

\* the ledgers the callers of the transaction api hold, created beforehand
ExistingLedgers == {NewLedger(USD_CENTS, ledger, {}) : ledger \in Ledgers}

----------------------------------------------------------------------------
Init ==
    /\ transactions = {}
    /\ reversals = {}
    /\ adjustments = {}
    /\ deposits = {}
    /\ ledgers = ExistingLedgers
    /\ locks = {}
    /\ calls = [actor \in Actors |-> Idle]
    /\ result = [op |-> "none", err |-> "ok", ret |-> NoRow, signal |-> FALSE]

\* api.create_ledger(initial_deposit=...) on every ledger that gets one: the
\* ledger's first transaction, COMMITTED, under the initial-deposit key
InitialDeposits ==
    {[ledger |-> ledger, idempotency_key |-> InitialDepositKey,
      quantity |-> InitialDeposit, state |-> COMMITTED,
      lms_user_id |-> NoUser] : ledger \in DepositedLedgers}

\* the state before any ledger is created
InitNoLedgers ==
    /\ transactions = {}
    /\ reversals = {}
    /\ adjustments = {}
    /\ deposits = {}
    /\ ledgers = {}
    /\ locks = {}
    /\ calls = [actor \in Actors |-> Idle]
    /\ result = [op |-> "none", err |-> "ok", ret |-> NoRow, signal |-> FALSE]

InitDeposited ==
    /\ transactions = InitialDeposits
    /\ reversals = {}
    /\ adjustments = {}
    /\ deposits = {}
    /\ ledgers = ExistingLedgers
    /\ locks = {}
    /\ calls = [actor \in Actors |-> Idle]
    /\ result = [op |-> "none", err |-> "ok", ret |-> NoRow, signal |-> FALSE]

----------------------------------------------------------------------------
(* Ledger lock *)

\* ledger.lock() gets the lock: ledger.acquire_lock() returns a token because
\* nobody holds the ledger's lock
LockAvailable(ledger) == \A held \in locks : held[1] # ledger

\* the opaque token acquire_lock hands to the actor that got the ledger's lock
LockToken(ledger, actor) == <<"lock", ledger, actor>>

\* the lock of a ledger other than the one asked for is looked at
acquire_lockAnyLedger(ledger, actor) ==
    IF locks = {}
    THEN [ret |-> LockToken(ledger, actor), locks |-> locks \cup {<<ledger, actor>>}]
    ELSE [ret |-> NoRow, locks |-> locks]

\* the lock is set without looking whether it is held
acquire_lockUnchecked(ledger, actor) ==
    [ret |-> LockToken(ledger, actor), locks |-> locks \cup {<<ledger, actor>>}]

\* Ledger.acquire_lock: one atomic check-and-set on the ledger's own lock; a
\* token when the lock was free, null (NoRow) when somebody holds it
acquire_lock(ledger, actor) ==
    IF LockAvailable(ledger)
    THEN [ret |-> LockToken(ledger, actor), locks |-> locks \cup {<<ledger, actor>>}]
    ELSE [ret |-> NoRow, locks |-> locks]

\* releasing a lock nobody holds is an error
release_lockStrict(ledger) ==
    IF LockAvailable(ledger)
    THEN [err |-> "LockNotHeld", locks |-> locks]
    ELSE [err |-> "ok", locks |-> {held \in locks : held[1] # ledger}]

\* Ledger.release_lock: the ledger's lock is free afterwards, held or not
release_lock(ledger) ==
    [err |-> "ok", locks |-> {held \in locks : held[1] # ledger}]

\* the scope is entered inside the try block, so the release of the finally
\* block also runs when the lock was not obtained
lockReleasesOnFailure(ledger, actor) ==
    LET out == acquire_lock(ledger, actor)
    IN IF out.ret = NoRow
       THEN [err |-> "LedgerLockAttemptFailed", locks |-> release_lock(ledger).locks]
       ELSE [err |-> "ok", locks |-> out.locks]

\* the scope is entered although the lock was not obtained
lockIgnoresFailure(ledger, actor) ==
    [err |-> "ok", locks |-> acquire_lock(ledger, actor).locks]

\* entering Ledger.lock(): acquire_lock, and LedgerLockAttemptFailed when it
\* returned null
lock(ledger, actor) ==
    LET out == acquire_lock(ledger, actor)
    IN IF out.ret = NoRow
       THEN [err |-> "LedgerLockAttemptFailed", locks |-> locks]
       ELSE [err |-> "ok", locks |-> out.locks]

\* the api entry point an actor's call came in through
CallName(call) == IF call.pc = "body" THEN "lock" ELSE "create_transaction"

\* an actor calls ledger.acquire_lock()
AcquireLock(actor, ledger) ==
    LET out == acquire_lock(ledger, actor)
    IN /\ calls[actor].pc = "idle"
       /\ locks' = out.locks
       /\ result' = [op |-> "acquire_lock", err |-> "ok", ret |-> out.ret, signal |-> FALSE]
       /\ UNCHANGED <<transactions, reversals, adjustments, calls, deposits, ledgers>>

\* an actor calls ledger.release_lock()
ReleaseLock(actor, ledger) ==
    LET out == release_lock(ledger)
    IN /\ calls[actor].pc = "idle"
       /\ locks' = out.locks
       /\ result' = [op |-> "release_lock", err |-> out.err, ret |-> NoRow, signal |-> FALSE]
       /\ UNCHANGED <<transactions, reversals, adjustments, calls, deposits, ledgers>>

\* an actor enters "with ledger.lock():" around the given call; when the lock
\* is not obtained the call ends here with LedgerLockAttemptFailed
EnterLock(actor, ledger, call) ==
    LET out == lock(ledger, actor)
    IN /\ calls[actor].pc = "idle"
       /\ locks' = out.locks
       /\ IF out.err = "ok"
          THEN /\ calls' = [calls EXCEPT ![actor] = call]
               /\ UNCHANGED result
          ELSE /\ result' = [op |-> CallName(call), err |-> out.err, ret |-> NoRow, signal |-> FALSE]
               /\ UNCHANGED calls
       /\ UNCHANGED <<transactions, reversals, adjustments, deposits, ledgers>>

\* an actor leaves the scope of ledger.lock(), normally or by an exception: the
\* finally block releases the lock and the call ends with what the body left
ExitLock(actor) ==
    /\ calls[actor].pc \in {"body", "exit"}
    /\ locks' = release_lock(calls[actor].ledger).locks
    /\ calls' = [calls EXCEPT ![actor] = Idle]
    /\ result' = [op |-> CallName(calls[actor]), err |-> calls[actor].err, ret |-> calls[actor].ret,
                  signal |-> FALSE]
    /\ UNCHANGED <<transactions, reversals, adjustments, deposits, ledgers>>

\* "with ledger.lock(): pass"
EnterLockScope(actor, ledger) ==
    EnterLock(actor, ledger, [Idle EXCEPT !.pc = "body", !.ledger = ledger])

----------------------------------------------------------------------------
(* api.create_transaction *)

\* the balance check, off by one
BalanceExceededOffByOne(ledger, quantity) ==
    (quantity < 0) /\ ((balance(ledger) + quantity) < -1)

\* api.py 93-95: the balance check made before the row is looked up
BalanceExceeded(ledger, quantity) ==
    (quantity < 0) /\ ((balance(ledger) + quantity) < 0)

\* the lookup of Transaction.objects.get_or_create(ledger=, idempotency_key=)
TransactionLookup(ledger, idempotency_key) ==
    {t \in transactions : t.ledger = ledger /\ t.idempotency_key = idempotency_key}

\* the row get_or_create inserts when the lookup finds nothing
NewTransaction(ledger, quantity, idempotency_key, state) ==
    [ledger |-> ledger, idempotency_key |-> idempotency_key,
     quantity |-> quantity, state |-> state, lms_user_id |-> NoUser]

\* create_transaction with update_or_create: a row found under the key takes
\* the values of the call
create_transactionUpdateOrCreate(ledger, quantity, idempotency_key, state) ==
    IF ~LockAvailable(ledger)
    THEN [err |-> "LedgerLockAttemptFailed", ret |-> NoRow, table |-> transactions]
    ELSE IF BalanceExceeded(ledger, quantity)
    THEN [err |-> "LedgerBalanceExceeded", ret |-> NoRow, table |-> transactions]
    ELSE [err |-> "ok",
          ret |-> TxId(NewTransaction(ledger, quantity, idempotency_key, state)),
          table |-> (transactions \ TransactionLookup(ledger, idempotency_key))
                    \cup {NewTransaction(ledger, quantity, idempotency_key, state)}]

\* create_transaction with the row written before the balance is checked and
\* no rollback
create_transactionWriteFirst(ledger, quantity, idempotency_key, state) ==
    LET table == IF TransactionLookup(ledger, idempotency_key) # {}
                 THEN transactions
                 ELSE transactions
                      \cup {NewTransaction(ledger, quantity, idempotency_key, state)}
    IN IF ~LockAvailable(ledger)
       THEN [err |-> "LedgerLockAttemptFailed", ret |-> NoRow, table |-> transactions]
       ELSE IF BalanceExceeded(ledger, quantity)
       THEN [err |-> "LedgerBalanceExceeded", ret |-> NoRow, table |-> table]
       ELSE [err |-> "ok", ret |-> <<ledger, idempotency_key>>, table |-> table]

\* create_transaction as a function of the database: what it raises, what it
\* returns and the Transaction table it leaves.  The ledger lock is taken on
\* entry and released on every exit, so it is free again when the call ends.
create_transaction(ledger, quantity, idempotency_key, state) ==
    IF ~LockAvailable(ledger)
    THEN [err |-> "LedgerLockAttemptFailed", ret |-> NoRow, table |-> transactions]
    ELSE IF BalanceExceeded(ledger, quantity)
    THEN [err |-> "LedgerBalanceExceeded", ret |-> NoRow, table |-> transactions]
    ELSE IF TransactionLookup(ledger, idempotency_key) # {}
    THEN [err |-> "ok",
          ret |-> TxId(CHOOSE t \in TransactionLookup(ledger, idempotency_key) : TRUE),
          table |-> transactions]
    ELSE [err |-> "ok",
          ret |-> TxId(NewTransaction(ledger, quantity, idempotency_key, state)),
          table |-> transactions
                    \cup {NewTransaction(ledger, quantity, idempotency_key, state)}]

\* create_transaction called with lms_user_id: the learner goes into the
\* defaults of get_or_create, so only a row that is inserted carries it
create_transaction_lms_user(ledger, quantity, idempotency_key, lms_user_id, state) ==
    LET out == create_transaction(ledger, quantity, idempotency_key, state)
        row == NewTransaction(ledger, quantity, idempotency_key, state)
    IN IF row \in out.table \ transactions
       THEN [out EXCEPT !.table = (out.table \ {row})
                            \cup {[row EXCEPT !.lms_user_id = lms_user_id]}]
       ELSE out

CreateTransactionForUser(ledger, quantity, idempotency_key, lms_user_id, state) ==
    LET out == create_transaction_lms_user(ledger, quantity, idempotency_key,
                                           lms_user_id, state)
    IN /\ Cardinality(out.table) <= MaxTx
       /\ transactions' = out.table
       /\ result' = [op |-> "create_transaction", err |-> out.err, ret |-> out.ret,
                     signal |-> FALSE]
       /\ UNCHANGED <<reversals, adjustments, locks, calls, deposits, ledgers>>

CreateTransaction(ledger, quantity, idempotency_key, state) ==
    LET out == create_transaction(ledger, quantity, idempotency_key, state)
    IN /\ Cardinality(out.table) <= MaxTx
       /\ transactions' = out.table
       /\ result' = [op |-> "create_transaction", err |-> out.err, ret |-> out.ret, signal |-> FALSE]
       /\ UNCHANGED <<reversals, adjustments, locks, calls, deposits, ledgers>>

\* create_transaction as concurrent actors run it, one step at a time: the
\* lock is taken, the balance is read and checked, get_or_create looks the key
\* up and writes, and the lock is released when the scope is left.

\* the balance check is made without entering ledger.lock()
BeginCreateTransactionNoLock(actor, ledger, quantity, idempotency_key, state) ==
    /\ calls[actor].pc = "idle"
    /\ calls' = [calls EXCEPT ![actor] =
                   [pc |-> "check", ledger |-> ledger, quantity |-> quantity,
                    idempotency_key |-> idempotency_key, state |-> state,
                    err |-> "ok", ret |-> NoRow]]
    /\ UNCHANGED <<transactions, reversals, adjustments, locks, result, deposits, ledgers>>

\* api.py 90: the actor enters "with ledger.lock():"
BeginCreateTransaction(actor, ledger, quantity, idempotency_key, state) ==
    EnterLock(actor, ledger,
              [pc |-> "check", ledger |-> ledger, quantity |-> quantity,
               idempotency_key |-> idempotency_key, state |-> state,
               err |-> "ok", ret |-> NoRow])

\* LedgerBalanceExceeded is raised past the release of the lock
CheckBalanceKeepsLock(actor) ==
    LET call == calls[actor]
    IN /\ call.pc = "check"
       /\ IF BalanceExceeded(call.ledger, call.quantity)
          THEN /\ calls' = [calls EXCEPT ![actor] = Idle]
               /\ result' = [op |-> "create_transaction",
                             err |-> "LedgerBalanceExceeded", ret |-> NoRow,
                             signal |-> FALSE]
          ELSE /\ calls' = [calls EXCEPT ![actor] = [call EXCEPT !.pc = "write"]]
               /\ UNCHANGED result
       /\ UNCHANGED <<transactions, reversals, adjustments, locks, deposits, ledgers>>

\* api.py 93-95: the balance is read; LedgerBalanceExceeded leaves the scope
CheckBalance(actor) ==
    LET call == calls[actor]
    IN /\ call.pc = "check"
       /\ calls' = [calls EXCEPT ![actor] =
                      IF BalanceExceeded(call.ledger, call.quantity)
                      THEN [call EXCEPT !.pc = "exit",
                                        !.err = "LedgerBalanceExceeded"]
                      ELSE [call EXCEPT !.pc = "write"]]
       /\ UNCHANGED <<transactions, reversals, adjustments, locks, result, deposits, ledgers>>

\* objects.create in place of get_or_create, with no unique key to stop it
GetOrCreateTransactionInsertOnly(actor) ==
    LET call == calls[actor]
        table == transactions
                 \cup {NewTransaction(call.ledger, call.quantity,
                                      call.idempotency_key, call.state)}
    IN /\ call.pc = "write"
       /\ Cardinality(table \ InitialDeposits) <= MaxTx
       /\ transactions' = table
       /\ calls' = [calls EXCEPT ![actor] =
                      [call EXCEPT !.pc = "exit",
                                   !.ret = <<call.ledger, call.idempotency_key>>]]
       /\ UNCHANGED <<reversals, adjustments, locks, result, deposits, ledgers>>

\* api.py 97-111: get_or_create returns the row of the key, inserting it when
\* there is none; the unique key makes lookup and insert one atomic step
GetOrCreateTransaction(actor) ==
    LET call == calls[actor]
        found == TransactionLookup(call.ledger, call.idempotency_key)
        table == IF found # {} THEN transactions
                 ELSE transactions
                      \cup {NewTransaction(call.ledger, call.quantity,
                                           call.idempotency_key, call.state)}
    IN /\ call.pc = "write"
       /\ Cardinality(table \ InitialDeposits) <= MaxTx
       /\ transactions' = table
       /\ calls' = [calls EXCEPT ![actor] =
                      [call EXCEPT !.pc = "exit",
                                   !.ret = <<call.ledger, call.idempotency_key>>]]
       /\ UNCHANGED <<reversals, adjustments, locks, result, deposits, ledgers>>

----------------------------------------------------------------------------
(* The external system that fulfils a transaction: tx.state = s; tx.save() *)

\* the moves of the Transaction state machine
StateMoves ==
    {<<CREATED, PENDING>>, <<PENDING, COMMITTED>>,
     <<CREATED, FAILED>>, <<PENDING, FAILED>>}

SetState(t, state) ==
    /\ <<t.state, state>> \in StateMoves
    /\ transactions' = (transactions \ {t}) \cup {[t EXCEPT !.state = state]}
    /\ result' = [op |-> "save", err |-> "ok", ret |-> NoRow, signal |-> FALSE]
    /\ UNCHANGED <<reversals, adjustments, locks, calls, deposits, ledgers>>

----------------------------------------------------------------------------
(* api.reverse_full_transaction *)

\* the lookup with the model's default state in place of COMMITTED
ReversalLookupDefaultState(t, idempotency_key) ==
    {r \in reversals : /\ r.transaction = TxId(t)
                       /\ r.idempotency_key = idempotency_key
                       /\ r.state = CREATED}

\* the lookup of Reversal.objects.get_or_create(transaction=, idempotency_key=,
\* state=COMMITTED)
ReversalLookup(t, idempotency_key) ==
    {r \in reversals : /\ r.transaction = TxId(t)
                       /\ r.idempotency_key = idempotency_key
                       /\ r.state = COMMITTED}

\* Reversal's constraints on insert: transaction is a OneToOneField, and
\* unique_together = [('transaction', 'idempotency_key')]
ReversalIntegrity(t, idempotency_key) ==
    /\ \A r \in reversals : r.transaction # TxId(t)
    /\ \A r \in reversals :
          ~(r.transaction = TxId(t) /\ r.idempotency_key = idempotency_key)

\* the Reversal takes the quantity of the transaction, sign and all
ReversalQuantitySameSign(t) == t.quantity

\* api.py 147: 'quantity': transaction.quantity * -1
ReversalQuantity(t) == t.quantity * (-1)

\* the row get_or_create inserts when the lookup finds nothing
NewReversal(t, idempotency_key) ==
    [transaction |-> TxId(t), idempotency_key |-> idempotency_key,
     quantity |-> ReversalQuantity(t), state |-> COMMITTED]

\* api.py 152: TRANSACTION_REVERSED.send(...) follows get_or_create, whose
\* `created` flag is discarded
TransactionReversedSent(created) == TRUE

\* reverse_full_transaction as a function of the database (t is the row
\* refresh_from_db() reads): what it raises, returns, sends and the Reversal
\* table it leaves
reverse_full_transaction(t, idempotency_key) ==
    IF AdjustmentsOf(t) # {}
    THEN [err |-> "CannotReverseAdjustmentError", ret |-> NoRow,
          signal |-> FALSE, table |-> reversals]
    ELSE IF t.state # COMMITTED
    THEN [err |-> "NonCommittedTransactionError", ret |-> NoRow,
          signal |-> FALSE, table |-> reversals]
    ELSE IF ReversalLookup(t, idempotency_key) # {}
    THEN [err |-> "ok",
          ret |-> ReversalId(CHOOSE r \in ReversalLookup(t, idempotency_key) : TRUE),
          signal |-> TransactionReversedSent(FALSE), table |-> reversals]
    ELSE IF ~ReversalIntegrity(t, idempotency_key)
    THEN [err |-> "IntegrityError", ret |-> NoRow,
          signal |-> FALSE, table |-> reversals]
    ELSE [err |-> "ok", ret |-> ReversalId(NewReversal(t, idempotency_key)),
          signal |-> TransactionReversedSent(TRUE),
          table |-> reversals \cup {NewReversal(t, idempotency_key)}]

ReverseFullTransaction(t, idempotency_key) ==
    LET out == reverse_full_transaction(t, idempotency_key)
    IN /\ reversals' = out.table
       /\ result' = [op |-> "reverse_full_transaction", err |-> out.err, ret |-> out.ret, signal |-> out.signal]
       /\ UNCHANGED <<transactions, adjustments, locks, calls, deposits, ledgers>>

----------------------------------------------------------------------------
(* api.create_adjustment *)

\* api.py 206-209: the transaction's idempotency key, generated when none is given
AdjustmentTransactionKey(idempotency_key) ==
    IF idempotency_key = None
    THEN "adjustment-" \o ToString(NextUuid(transactions))
    ELSE idempotency_key

\* api.py 220-222: the Adjustment's uuid, the model default (uuid4) when none is given
AdjustmentUuid(adjustment_uuid) ==
    IF adjustment_uuid = NoUuid THEN NextUuid(adjustments) ELSE adjustment_uuid

\* Adjustment's constraints on insert: uuid is the primary key, and transaction
\* is one-to-one
AdjustmentIntegrity(uuid, t) ==
    /\ \A a \in adjustments : a.uuid # uuid
    /\ \A a \in adjustments : a.transaction # t

\* the transaction written before the Adjustment insert failed is kept: the
\* two writes are not inside one atomic block
create_adjustmentNoRollback(ledger, quantity, adjustment_uuid, idempotency_key) ==
    LET tx == create_transaction(ledger, quantity,
                                 AdjustmentTransactionKey(idempotency_key), COMMITTED)
    IN IF tx.err # "ok"
       THEN [err |-> "AdjustmentCreationError", ret |-> NoRow,
             table |-> transactions, adjustments |-> adjustments]
       ELSE IF ~AdjustmentIntegrity(AdjustmentUuid(adjustment_uuid), tx.ret)
       THEN [err |-> "AdjustmentCreationError", ret |-> NoRow,
             table |-> tx.table, adjustments |-> adjustments]
       ELSE LET row == [uuid |-> AdjustmentUuid(adjustment_uuid),
                        ledger |-> ledger,
                        transaction |-> tx.ret,
                        adjustment_quantity |-> quantity]
            IN [err |-> "ok", ret |-> <<row.uuid>>, table |-> tx.table,
                adjustments |-> adjustments \cup {row}]

\* create_adjustment as a function of the database: every exception inside the
\* atomic block rolls both writes back and is re-raised as AdjustmentCreationError
create_adjustment(ledger, quantity, adjustment_uuid, idempotency_key) ==
    LET tx == create_transaction(ledger, quantity,
                                 AdjustmentTransactionKey(idempotency_key), COMMITTED)
        failed == [err |-> "AdjustmentCreationError", ret |-> NoRow,
                   table |-> transactions, adjustments |-> adjustments]
    IN IF tx.err # "ok" THEN failed
       ELSE IF ~AdjustmentIntegrity(AdjustmentUuid(adjustment_uuid), tx.ret)
       THEN failed
       ELSE LET row == [uuid |-> AdjustmentUuid(adjustment_uuid),
                        ledger |-> ledger,
                        transaction |-> tx.ret,
                        adjustment_quantity |-> quantity]
            IN [err |-> "ok", ret |-> <<row.uuid>>, table |-> tx.table,
                adjustments |-> adjustments \cup {row}]

CreateAdjustment(ledger, quantity, adjustment_uuid, idempotency_key) ==
    LET out == create_adjustment(ledger, quantity, adjustment_uuid, idempotency_key)
    IN /\ Cardinality(out.table) <= MaxTx
       /\ transactions' = out.table
       /\ adjustments' = out.adjustments
       /\ result' = [op |-> "create_adjustment", err |-> out.err, ret |-> out.ret, signal |-> FALSE]
       /\ UNCHANGED <<reversals, locks, calls, deposits, ledgers>>

----------------------------------------------------------------------------
(* api.create_deposit *)

\* transaction.deposit: the Deposit rows whose transaction is t
DepositsOf(t) == {d \in deposits : d.transaction = TxId(t)}

\* the transaction's idempotency key: the caller's, or one derived from the
\* sales contract reference when none is given
DepositTransactionKey(idempotency_key) ==
    IF idempotency_key = None THEN "sales-contract" ELSE idempotency_key

\* the Deposit's uuid, the model default (uuid4) when none is given
DepositUuid(deposit_uuid) ==
    IF deposit_uuid = NoUuid THEN NextUuid(deposits) ELSE deposit_uuid

\* Deposit's constraints on insert: uuid is the primary key, and transaction is
\* one-to-one
DepositIntegrity(uuid, t) ==
    /\ \A d \in deposits : d.uuid # uuid
    /\ \A d \in deposits : d.transaction # t

\* only a negative quantity is refused
create_depositAcceptsZero(ledger, quantity, deposit_uuid, idempotency_key) ==
    LET tx == create_transaction(ledger, quantity,
                                 DepositTransactionKey(idempotency_key), COMMITTED)
        failed == [err |-> "DepositCreationError", ret |-> NoRow,
                   table |-> transactions, deposits |-> deposits]
    IN IF quantity < 0 THEN failed
       ELSE IF tx.err # "ok" THEN failed
       ELSE IF ~DepositIntegrity(DepositUuid(deposit_uuid), tx.ret) THEN failed
       ELSE LET row == [uuid |-> DepositUuid(deposit_uuid),
                        ledger |-> ledger,
                        transaction |-> tx.ret,
                        desired_deposit_quantity |-> quantity]
            IN [err |-> "ok", ret |-> <<row.uuid>>, table |-> tx.table,
                deposits |-> deposits \cup {row}]

\* the Deposit is looked up before it is inserted, and the one found is returned
create_depositGetOrCreate(ledger, quantity, deposit_uuid, idempotency_key) ==
    LET tx == create_transaction(ledger, quantity,
                                 DepositTransactionKey(idempotency_key), COMMITTED)
        failed == [err |-> "DepositCreationError", ret |-> NoRow,
                   table |-> transactions, deposits |-> deposits]
    IN IF quantity <= 0 THEN failed
       ELSE IF tx.err # "ok" THEN failed
       ELSE IF ~DepositIntegrity(DepositUuid(deposit_uuid), tx.ret)
       THEN [err |-> "ok", ret |-> <<DepositUuid(deposit_uuid)>>,
             table |-> transactions, deposits |-> deposits]
       ELSE LET row == [uuid |-> DepositUuid(deposit_uuid),
                        ledger |-> ledger,
                        transaction |-> tx.ret,
                        desired_deposit_quantity |-> quantity]
            IN [err |-> "ok", ret |-> <<row.uuid>>, table |-> tx.table,
                deposits |-> deposits \cup {row}]

\* create_deposit as a function of the database: a quantity that is not
\* positive is refused before anything is written; otherwise a COMMITTED
\* transaction is made through create_transaction and a Deposit is inserted for
\* it, and every failure rolls both back and raises DepositCreationError
create_deposit(ledger, quantity, deposit_uuid, idempotency_key) ==
    LET tx == create_transaction(ledger, quantity,
                                 DepositTransactionKey(idempotency_key), COMMITTED)
        failed == [err |-> "DepositCreationError", ret |-> NoRow,
                   table |-> transactions, deposits |-> deposits]
    IN IF quantity <= 0 THEN failed
       ELSE IF tx.err # "ok" THEN failed
       ELSE IF ~DepositIntegrity(DepositUuid(deposit_uuid), tx.ret) THEN failed
       ELSE LET row == [uuid |-> DepositUuid(deposit_uuid),
                        ledger |-> ledger,
                        transaction |-> tx.ret,
                        desired_deposit_quantity |-> quantity]
            IN [err |-> "ok", ret |-> <<row.uuid>>, table |-> tx.table,
                deposits |-> deposits \cup {row}]

CreateDeposit(ledger, quantity, deposit_uuid, idempotency_key) ==
    LET out == create_deposit(ledger, quantity, deposit_uuid, idempotency_key)
    IN /\ Cardinality(out.table) <= MaxTx
       /\ transactions' = out.table
       /\ deposits' = out.deposits
       /\ result' = [op |-> "create_deposit", err |-> out.err, ret |-> out.ret,
                     signal |-> FALSE]
       /\ UNCHANGED <<reversals, adjustments, ledgers, locks, calls>>

\* every transaction that backs a Deposit or an Adjustment, not a spend
all_deposits(ledger) ==
    {t \in LedgerTransactions(ledger) : DepositsOf(t) # {} \/ AdjustmentsOf(t) # {}}

\* counts every transaction of the ledger
total_depositsAllTransactions(ledger) == SumQuantity(LedgerTransactions(ledger))

\* Ledger.total_deposits: the quantities of the funding-side transactions
total_deposits(ledger) == SumQuantity(all_deposits(ledger))

----------------------------------------------------------------------------
\* api.create_adjustment step by step, for actors that interleave.  The call
\* opens a database transaction ("with atomic()", api.py 211) and runs
\* create_transaction inside it; what the actor writes is seen by the others
\* only when that outer block commits, after Adjustment.objects.create.  The
\* ledger lock is left when create_transaction returns (api.py 90-112).

\* api.py 206-209: the generated transaction key, one per call (uuid4)
GeneratedAdjustmentKey(actor) ==
    "adjustment-" \o actor \o "-" \o ToString(NextUuid(transactions))

\* the rows a connection reads: the committed ones and its own
VisibleTransactions(actor) == transactions \cup calls[actor].pending

\* ledger.balance() as read inside the actor's database transaction
VisibleBalance(actor, ledger) ==
    subset_balance(ledger, VisibleTransactions(actor))

\* api.py 211-212 and 90: atomic() is opened, create_transaction is called
\* and enters "with ledger.lock():"
BeginCreateAdjustment(actor, ledger, quantity) ==
    LET out == lock(ledger, actor)
    IN /\ calls[actor].pc = "idle"
       /\ locks' = out.locks
       /\ IF out.err = "ok"
          THEN /\ calls' = [calls EXCEPT ![actor] =
                             [pc |-> "adjustment_check", ledger |-> ledger,
                              quantity |-> quantity,
                              idempotency_key |-> GeneratedAdjustmentKey(actor),
                              state |-> COMMITTED, err |-> "ok", ret |-> NoRow,
                              pending |-> {}]]
               /\ UNCHANGED result
          ELSE /\ result' = [op |-> "create_adjustment",
                             err |-> "AdjustmentCreationError", ret |-> NoRow,
                             signal |-> FALSE]
               /\ UNCHANGED calls
       /\ UNCHANGED <<transactions, reversals, adjustments, deposits, ledgers>>

\* api.py 93-95 inside create_adjustment: the balance the connection sees
AdjustmentCheckBalance(actor) ==
    LET call == calls[actor]
    IN /\ call.pc = "adjustment_check"
       /\ calls' = [calls EXCEPT ![actor] =
                      IF (call.quantity < 0)
                         /\ ((VisibleBalance(actor, call.ledger) + call.quantity) < 0)
                      THEN [call EXCEPT !.pc = "adjustment_unlock",
                                        !.err = "LedgerBalanceExceeded"]
                      ELSE [call EXCEPT !.pc = "adjustment_write"]]
       /\ UNCHANGED <<transactions, reversals, adjustments, locks, result,
                      deposits, ledgers>>

\* api.py 97-111 inside create_adjustment: the row is written in the actor's
\* open database transaction
AdjustmentGetOrCreate(actor) ==
    LET call == calls[actor]
        found == {t \in VisibleTransactions(actor) :
                    t.ledger = call.ledger /\ t.idempotency_key = call.idempotency_key}
        row == NewTransaction(call.ledger, call.quantity, call.idempotency_key,
                              call.state)
    IN /\ call.pc = "adjustment_write"
       /\ calls' = [calls EXCEPT ![actor] =
                      [call EXCEPT !.pc = "adjustment_unlock",
                                   !.ret = <<call.ledger, call.idempotency_key>>,
                                   !.pending = IF found # {} THEN {} ELSE {row}]]
       /\ UNCHANGED <<transactions, reversals, adjustments, locks, result,
                      deposits, ledgers>>

\* the scope of ledger.lock() is left: create_transaction returns into the
\* atomic block of create_adjustment, or raises into its except clause
AdjustmentExitLock(actor) ==
    LET call == calls[actor]
    IN /\ call.pc = "adjustment_unlock"
       /\ locks' = release_lock(call.ledger).locks
       /\ IF call.err = "ok"
          THEN /\ calls' = [calls EXCEPT ![actor] = [call EXCEPT !.pc = "adjustment_commit"]]
               /\ UNCHANGED result
          ELSE /\ calls' = [calls EXCEPT ![actor] = Idle]
               /\ result' = [op |-> "create_adjustment",
                             err |-> "AdjustmentCreationError", ret |-> NoRow,
                             signal |-> FALSE]
       /\ UNCHANGED <<transactions, reversals, adjustments, deposits, ledgers>>

\* api.py 219-231: Adjustment.objects.create, then the atomic block commits
\* the Transaction and the Adjustment together; an IntegrityError rolls both
\* back
AdjustmentCommit(actor) ==
    LET call == calls[actor]
        table == transactions \cup call.pending
        row == [uuid |-> AdjustmentUuid(NoUuid), ledger |-> call.ledger,
                transaction |-> call.ret, adjustment_quantity |-> call.quantity]
    IN /\ call.pc = "adjustment_commit"
       /\ Cardinality(table \ InitialDeposits) <= MaxTx
       /\ calls' = [calls EXCEPT ![actor] = Idle]
       /\ IF AdjustmentIntegrity(row.uuid, call.ret)
          THEN /\ transactions' = table
               /\ adjustments' = adjustments \cup {row}
               /\ result' = [op |-> "create_adjustment", err |-> "ok",
                             ret |-> <<row.uuid>>, signal |-> FALSE]
          ELSE /\ result' = [op |-> "create_adjustment",
                             err |-> "AdjustmentCreationError", ret |-> NoRow,
                             signal |-> FALSE]
               /\ UNCHANGED <<transactions, adjustments>>
       /\ UNCHANGED <<reversals, locks, deposits, ledgers>>

----------------------------------------------------------------------------
\* views.ReverseTransactionView.post

\* f"admin-invoked-reverse-{str(transaction.uuid)}"
AdminReversalKey(t) ==
    "admin-invoked-reverse-" \o t.ledger \o "/" \o t.idempotency_key

\* the response of post: IntegrityError and NonCommittedTransactionError are
\* caught and answered with 400, any other exception leaves the view (500),
\* a call that returns is answered with the redirect
reverse_transaction_view_post(t) ==
    LET out == reverse_full_transaction(t, AdminReversalKey(t))
        response ==
            IF out.err = "IntegrityError"
            THEN <<"400", "Transaction Reversal already exists">>
            ELSE IF out.err = "NonCommittedTransactionError"
            THEN <<"400", "Transaction Reversal failed">>
            ELSE IF out.err = "ok"
            THEN <<"302", "admin:openedx_ledger_transaction_change">>
            ELSE <<"500", out.err>>
    IN [response |-> response, signal |-> out.signal, table |-> out.table]

ReverseTransactionViewPost(t) ==
    LET out == reverse_transaction_view_post(t)
    IN /\ reversals' = out.table
       /\ result' = [op |-> "ReverseTransactionView.post", err |-> "ok",
                     ret |-> out.response, signal |-> out.signal]
       /\ UNCHANGED <<transactions, adjustments, locks, calls, deposits, ledgers>>

----------------------------------------------------------------------------
\* reading the balance

Balance(ledger, kwargs) ==
    LET out == balance_call(ledger, kwargs)
    IN /\ result' = [op |-> "balance", err |-> out.err, ret |-> out.ret,
                     signal |-> FALSE]
       /\ UNCHANGED <<transactions, reversals, adjustments, deposits, ledgers,
                      locks, calls>>

----------------------------------------------------------------------------
\* api.create_ledger

INITIAL_DEPOSIT_TRANSACTION_SLUG == "initial-deposit"

\* utils.create_idempotency_key_for_transaction(ledger, quantity,
\* is_initial_deposit=True): the ledger's key, the quantity and the slug
create_idempotency_key_for_transaction(ledger, quantity) ==
    ledger.idempotency_key \o "-" \o ToString(quantity) \o "-"
        \o INITIAL_DEPOSIT_TRANSACTION_SLUG

TRANSACTION_METADATA_KEYS == {"lms_user_id", "content_key", "subsidy_access_policy_uuid"}

\* the filter of the dict comprehension over metadata.items()
in_transaction_metadata_keys(item) == item[1] \in TRANSACTION_METADATA_KEYS

\* idpk_data: the allow-listed items, in the order metadata.items() yields
\* them, which is the order of the keyword arguments; the default identifier
\* when there is none
idpk_data(metadata, uuid4) ==
    LET data == SelectSeq(metadata, in_transaction_metadata_keys)
    IN IF data = <<>> THEN << <<"default_identifier", uuid4>> >> ELSE data

\* str(dict): the items in insertion order, "{'k': 'v', 'k2': 'v2'}"
RECURSIVE str_items(_)
str_items(items) ==
    IF items = <<>> THEN ""
    ELSE "'" \o items[1][1] \o "': '" \o items[1][2] \o "'"
         \o (IF Len(items) > 1 THEN ", " ELSE "") \o str_items(Tail(items))

str(items) == "{" \o str_items(items) \o "}"

\* hashlib.md5(...).hexdigest(): a digest of the bytes, taken as free of
\* collisions on the strings of the model
md5_hexdigest(bytes) == "md5:" \o bytes

\* utils.create_idempotency_key_for_transaction without is_initial_deposit:
\* the ledger's key, the quantity and the digest of str(idpk_data)
create_idempotency_key_for_transaction_hashed(ledger, quantity, metadata, uuid4) ==
    ledger.idempotency_key \o "-" \o ToString(quantity) \o "-"
        \o md5_hexdigest(str(idpk_data(metadata, uuid4)))

\* a caller makes a key and keeps it with the arguments it was made from
CreateIdempotencyKey(actor, ledger, quantity, metadata, uuid4) ==
    LET key == create_idempotency_key_for_transaction_hashed(ledger, quantity,
                                                             metadata, uuid4)
    IN /\ calls' = [calls EXCEPT ![actor] =
                       [pc |-> "key", ledger |-> ledger.idempotency_key,
                        quantity |-> quantity, metadata |-> metadata,
                        idempotency_key |-> key]]
       /\ result' = [op |-> "create_idempotency_key_for_transaction",
                     err |-> "ok", ret |-> key, signal |-> FALSE]
       /\ UNCHANGED <<transactions, reversals, adjustments, deposits, ledgers, locks>>

\* the lookup of Ledger.objects.get_or_create(unit=..., idempotency_key=...)
LedgerLookup(unit, idempotency_key) ==
    {l \in ledgers : l.unit = unit /\ l.idempotency_key = idempotency_key}

\* Ledger.idempotency_key is unique
LedgerIntegrity(idempotency_key) ==
    \A l \in ledgers : l.idempotency_key # idempotency_key

\* the initial-deposit transactions of a ledger
InitialDepositTransactions(ledger) ==
    {t \in LedgerTransactions(ledger.idempotency_key) :
        \E quantity \in InitialDepositQuantities :
            t.idempotency_key = create_idempotency_key_for_transaction(ledger, quantity)}

\* create_ledger: get or create the Ledger, then, when initial_deposit is
\* truthy, create_transaction under the initial-deposit key, COMMITTED. The
\* Ledger is written before the transaction and outside any atomic block;
\* the keyword arguments go to the metadata of a new Ledger and nowhere else.
create_ledger(unit, idempotency_key, initial_deposit, metadata) ==
    LET u == IF unit = None THEN USD_CENTS ELSE unit
        found == LedgerLookup(u, idempotency_key)
        ledger == IF found # {} THEN CHOOSE l \in found : TRUE
                  ELSE NewLedger(u, idempotency_key, metadata)
    IN IF found = {} /\ ~LedgerIntegrity(idempotency_key)
       THEN [err |-> "IntegrityError", ret |-> NoRow,
             ledgers |-> ledgers, table |-> transactions]
       ELSE IF initial_deposit = 0
       THEN [err |-> "ok", ret |-> ledger,
             ledgers |-> ledgers \cup {ledger}, table |-> transactions]
       ELSE LET tx == create_transaction(
                          ledger.idempotency_key, initial_deposit,
                          create_idempotency_key_for_transaction(ledger, initial_deposit),
                          COMMITTED)
            IN [err |-> tx.err,
                ret |-> IF tx.err = "ok" THEN ledger ELSE NoRow,
                ledgers |-> ledgers \cup {ledger}, table |-> tx.table]

CreateLedger(unit, idempotency_key, initial_deposit, metadata) ==
    LET out == create_ledger(unit, idempotency_key, initial_deposit, metadata)
    IN /\ Cardinality(out.table) <= MaxTx
       /\ ledgers' = out.ledgers
       /\ transactions' = out.table
       /\ result' = [op |-> "create_ledger", err |-> out.err, ret |-> out.ret,
                     signal |-> FALSE]
       /\ UNCHANGED <<reversals, adjustments, deposits, locks, calls>>

----------------------------------------------------------------------------
(* Specifications *)

\* some caller calls create_transaction
CallCreateTransaction ==
    \E ledger \in Ledgers, quantity \in Quantities, key \in Keys,
       state \in InitialStates :
         CreateTransaction(ledger, quantity, key, state)

\* the fulfilling system moves some transaction to another state
CallSetState == \E t \in transactions, state \in States : SetState(t, state)

\* some caller calls reverse_full_transaction
CallReverseFullTransaction ==
    \E t \in transactions, key \in ReversalKeys : ReverseFullTransaction(t, key)

\* some caller calls create_transaction on a ledger that takes adjustments
CallCreateTransactionAdjusted ==
    \E ledger \in AdjustmentLedgers, quantity \in Quantities, key \in Keys,
       state \in InitialStates :
         CreateTransaction(ledger, quantity, key, state)

\* some caller calls create_adjustment
CallCreateAdjustment ==
    \E ledger \in AdjustmentLedgers, quantity \in Quantities,
       uuid \in AdjustmentUuids \cup {NoUuid}, key \in Keys \cup {None} :
         CreateAdjustment(ledger, quantity, uuid, key)

\* some actor calls acquire_lock or release_lock on some ledger
CallAcquireLock == \E actor \in Actors, ledger \in Ledgers : AcquireLock(actor, ledger)
CallReleaseLock == \E actor \in Actors, ledger \in Ledgers : ReleaseLock(actor, ledger)

\* some actor enters "with ledger.lock(): pass"
CallEnterLockScope ==
    \E actor \in Actors, ledger \in Ledgers : EnterLockScope(actor, ledger)

\* some actor leaves the scope of the lock it is in
CallExitLock == \E actor \in Actors : ExitLock(actor)

\* some actor starts create_transaction, in the default state
CallBeginCreateTransaction ==
    \E actor \in Actors, ledger \in Ledgers, quantity \in Quantities, key \in Keys :
        BeginCreateTransaction(actor, ledger, quantity, key, CREATED)

\* some actor inside create_transaction takes its next step
CallCheckBalance == \E actor \in Actors : CheckBalance(actor)
CallGetOrCreateTransaction == \E actor \in Actors : GetOrCreateTransaction(actor)

\* some caller calls create_deposit
CallCreateDeposit ==
    \E ledger \in AdjustmentLedgers, quantity \in DepositQuantities,
       uuid \in DepositUuids \cup {NoUuid}, key \in Keys \cup {None} :
         CreateDeposit(ledger, quantity, uuid, key)

\* transactions, their states and their reversals
Next ==
    \/ CallCreateTransaction
    \/ CallSetState
    \/ CallReverseFullTransaction

Spec == Init /\ [][Next]_vars

\* sequences of create_transaction calls alone
NextCreate == CallCreateTransaction

SpecCreate == Init /\ [][NextCreate]_vars

\* every operation, adjustments included, on the ledgers that take adjustments
NextAdjustment ==
    \/ CallCreateTransactionAdjusted
    \/ CallSetState
    \/ CallReverseFullTransaction
    \/ CallCreateAdjustment

SpecAdjustment == Init /\ [][NextAdjustment]_vars

\* the lock manager alone: acquire_lock, release_lock and lock() scopes
NextLock ==
    \/ CallAcquireLock
    \/ CallReleaseLock
    \/ CallEnterLockScope
    \/ CallExitLock

SpecLock == Init /\ [][NextLock]_vars

\* actors running create_transaction concurrently on ledgers with a deposit
NextConcurrent ==
    \/ CallBeginCreateTransaction
    \/ CallCheckBalance
    \/ CallGetOrCreateTransaction
    \/ CallExitLock

SpecConcurrent == InitDeposited /\ [][NextConcurrent]_vars

\* some caller calls create_adjustment and leaves the uuid and the key to
\* their defaults
CallCreateAdjustmentGenerated ==
    \E ledger \in AdjustmentLedgers, quantity \in Quantities :
        CreateAdjustment(ledger, quantity, NoUuid, None)

\* some caller calls create_deposit and leaves the uuid and the key to their
\* defaults
CallCreateDepositGenerated ==
    \E ledger \in AdjustmentLedgers, quantity \in DepositQuantities :
        CreateDeposit(ledger, quantity, NoUuid, None)

\* funding (deposits, adjustments) beside spending and reversing
NextFunding ==
    \/ CallCreateTransactionAdjusted
    \/ CallCreateAdjustmentGenerated
    \/ CallCreateDepositGenerated
    \/ CallReverseFullTransaction
    \/ CallSetState

SpecFunding == Init /\ [][NextFunding]_vars

\* some caller calls create_transaction for a learner
CallCreateTransactionForUser ==
    \E ledger \in Ledgers, quantity \in Quantities, key \in Keys,
       lms_user_id \in Users :
         CreateTransactionForUser(ledger, quantity, key, lms_user_id, COMMITTED)

\* learners' transactions on two ledgers, and their reversals
NextUser ==
    \/ CallCreateTransactionForUser
    \/ CallReverseFullTransaction

SpecUser == Init /\ [][NextUser]_vars

\* some caller makes an idempotency key for a transaction
CallCreateIdempotencyKey ==
    \E actor \in Actors, ledger \in ledgers, quantity \in KeyQuantities,
       metadata \in Metadata, uuid4 \in Uuid4s :
         /\ ledger.idempotency_key \in AdjustmentLedgers
         /\ CreateIdempotencyKey(actor, ledger, quantity, metadata, uuid4)

\* callers making idempotency keys
NextKey == CallCreateIdempotencyKey

SpecKey == Init /\ [][NextKey]_vars

\* actors inside create_transaction while other callers reverse transactions
NextConcurrentReversal ==
    \/ CallBeginCreateTransaction
    \/ CallCheckBalance
    \/ CallGetOrCreateTransaction
    \/ CallExitLock
    \/ CallReverseFullTransaction

SpecConcurrentReversal == InitDeposited /\ [][NextConcurrentReversal]_vars

\* an admin posts the reverse-transaction form of some transaction
CallReverseTransactionViewPost ==
    \E t \in transactions : ReverseTransactionViewPost(t)

\* the admin view beside the api
NextView ==
    \/ CallCreateTransactionAdjusted
    \/ CallReverseFullTransaction
    \/ CallReverseTransactionViewPost

SpecView == Init /\ [][NextView]_vars

\* some actor calls create_adjustment with a negative quantity
CallBeginCreateAdjustment ==
    \E actor \in Actors, ledger \in DepositedLedgers,
       quantity \in {q \in Quantities : q < 0} :
         BeginCreateAdjustment(actor, ledger, quantity)

\* some actor inside create_adjustment takes its next step
CallAdjustmentCheckBalance == \E actor \in Actors : AdjustmentCheckBalance(actor)
CallAdjustmentGetOrCreate == \E actor \in Actors : AdjustmentGetOrCreate(actor)
CallAdjustmentExitLock == \E actor \in Actors : AdjustmentExitLock(actor)
CallAdjustmentCommit == \E actor \in Actors : AdjustmentCommit(actor)

\* actors running create_adjustment concurrently on a ledger with a deposit
NextConcurrentAdjustment ==
    \/ CallBeginCreateAdjustment
    \/ CallAdjustmentCheckBalance
    \/ CallAdjustmentGetOrCreate
    \/ CallAdjustmentExitLock
    \/ CallAdjustmentCommit

SpecConcurrentAdjustment == InitDeposited /\ [][NextConcurrentAdjustment]_vars

\* some caller reads a ledger's balance
CallBalance ==
    \E ledger \in AdjustmentLedgers, kwargs \in BalanceArguments : Balance(ledger, kwargs)

\* transactions created, moved, reversed, and the balance read
NextBalance ==
    \/ CallCreateTransactionAdjusted
    \/ CallSetState
    \/ CallReverseFullTransaction
    \/ CallBalance

SpecBalance == Init /\ [][NextBalance]_vars

\* some caller calls create_ledger
CallCreateLedger ==
    \E unit \in UnitChoices \cup {None}, key \in Ledgers,
       initial_deposit \in InitialDepositQuantities, metadata \in LedgerMetadata :
         CreateLedger(unit, key, initial_deposit, metadata)

\* create_transaction on a ledger that create_ledger has returned
CallCreateTransactionOnLedger ==
    \E l \in ledgers, quantity \in Quantities, key \in Keys,
       state \in InitialStates :
         /\ l.idempotency_key \in AdjustmentLedgers
         /\ CreateTransaction(l.idempotency_key, quantity, key, state)

\* ledgers created, funded and spent from
NextLedger ==
    \/ CallCreateLedger
    \/ CallCreateTransactionOnLedger

SpecLedger == InitNoLedgers /\ [][NextLedger]_vars

\* adjustments beside plain transactions
NextAdjust ==
    \/ CallCreateTransactionAdjusted
    \/ CallCreateAdjustment

SpecAdjust == Init /\ [][NextAdjust]_vars

\* deposits beside plain transactions
NextDeposit ==
    \/ CallCreateTransactionAdjusted
    \/ CallCreateDeposit

SpecDeposit == Init /\ [][NextDeposit]_vars

----------------------------------------------------------------------------
(* Properties *)

\* the balance the specification gives a ledger: the quantities of its
\* transactions that are not FAILED, plus the quantities of their reversals
SpecifiedBalance(ledger) ==
    LET rows == {t \in transactions : t.ledger = ledger /\ t.state # FAILED}
    IN SumQuantity(rows)
       + SumQuantity({r \in reversals : \E t \in rows : r.transaction = TxId(t)})

\* C1: after every call of a sequence of create_transaction calls, with any
\* quantities and idempotency keys, the balance of every ledger is >= 0.
CreateTransactionKeepsBalance_C1 ==
    \A ledger \in Ledgers : balance(ledger) >= 0

\* C1's case: a debit was persisted and it used the ledger's whole balance
DebitPersisted_C1 ==
    \E t \in transactions : t.quantity < 0 /\ balance(t.ledger) = 0

\* C2: in every reachable state, under create_transaction,
\* reverse_full_transaction and state changes, no ledger's balance is negative.
NoNegativeBalance_C2 ==
    \A ledger \in Ledgers : ~(balance(ledger) < 0)

\* C3: a create_transaction call that holds the ledger's lock, with
\* quantity < 0 and balance + quantity < 0, raises LedgerBalanceExceeded and
\* leaves the Transaction table and the balance as they were.
DebitOverBalanceRejected_C3 ==
    [][\A ledger \in Ledgers, quantity \in Quantities, key \in Keys,
          state \in InitialStates :
            (/\ CreateTransaction(ledger, quantity, key, state)
             /\ LockAvailable(ledger)
             /\ quantity < 0
             /\ balance(ledger) + quantity < 0)
            => (/\ result'.err = "LedgerBalanceExceeded"
                /\ result'.ret = NoRow
                /\ transactions' = transactions
                /\ balance(ledger)' = balance(ledger))]_vars

\* C3's case: a debit was refused on a ledger holding a positive balance
DebitRefused_C3 ==
    /\ result.err = "LedgerBalanceExceeded"
    /\ \E ledger \in Ledgers : balance(ledger) > 0
    /\ \E ledger \in Ledgers : balance(ledger) = 0

\* C4: in every reachable state the balance of a ledger is the sum of the
\* quantities of its transactions that are not FAILED plus the quantities of
\* the reversals of those; a FAILED transaction contributes nothing.
BalanceExcludesFailed_C4 ==
    \A ledger \in Ledgers : balance(ledger) = SpecifiedBalance(ledger)

\* C5: a create_transaction call for a (ledger, idempotency_key) that already
\* has a Transaction returns that transaction and leaves it the only one with
\* the key, its stored fields unchanged, whatever values the call passes.
ReplayReturnsStoredTransaction_C5 ==
    [][\A ledger \in Ledgers, quantity \in Quantities, key \in Keys,
          state \in InitialStates :
            (/\ CreateTransaction(ledger, quantity, key, state)
             /\ LockAvailable(ledger)
             /\ TransactionLookup(ledger, key) # {})
            => (/\ result'.err = "ok"
                /\ result'.ret = <<ledger, key>>
                /\ transactions' = transactions
                /\ Cardinality(TransactionLookup(ledger, key)) = 1)]_vars

\* C6: a create_transaction call for a (ledger, idempotency_key) that already
\* has a Transaction never raises LedgerBalanceExceeded.
ReplayNotRevalidated_C6 ==
    [][\A ledger \in Ledgers, quantity \in Quantities, key \in Keys,
          state \in InitialStates :
            (/\ CreateTransaction(ledger, quantity, key, state)
             /\ TransactionLookup(ledger, key) # {})
            => result'.err # "LedgerBalanceExceeded"]_vars

\* C7: reverse_full_transaction called again with the transaction and the
\* idempotency key of the call that has just returned a Reversal returns that
\* same Reversal, leaves it the transaction's only Reversal and leaves the
\* Reversal table and the ledger's balance as they were.
ReversalReplayIdempotent_C7 ==
    [][\A t \in transactions, key \in ReversalKeys :
            (/\ result.err = "ok"
             /\ result.ret = <<t.ledger, t.idempotency_key, key>>
             /\ ReverseFullTransaction(t, key))
            => (/\ result'.err = "ok"
                /\ result'.ret = result.ret
                /\ reversals' = reversals
                /\ Cardinality(ReversalsOf(t)) = 1
                /\ balance(t.ledger)' = balance(t.ledger))]_vars

\* C7's case: the last call returned a Reversal that is in the table
ReversalReturned_C7 ==
    /\ result.err = "ok"
    /\ \E r \in reversals : result.ret = ReversalId(r)

\* C8: every transaction has at most one Reversal, and reverse_full_transaction
\* on a transaction reversed under another idempotency key raises an integrity
\* error, adds no Reversal and leaves the balance as it was.
SecondReversalRejected_C8 ==
    [][/\ \A t \in transactions : Cardinality(ReversalsOf(t)) <= 1
       /\ \A t \in transactions, key \in ReversalKeys :
            (/\ ReverseFullTransaction(t, key)
             /\ \E r \in ReversalsOf(t) : r.idempotency_key # key)
            => (/\ result'.err = "IntegrityError"
                /\ reversals' = reversals
                /\ balance(t.ledger)' = balance(t.ledger))]_vars

\* C9: reverse_full_transaction sends TRANSACTION_REVERSED exactly when it
\* creates a Reversal; a call that returns an existing Reversal sends nothing.
SignalOnlyOnCreation_C9 ==
    [][\A t \in transactions, key \in ReversalKeys :
            ReverseFullTransaction(t, key)
            => (result'.signal <=> reversals' # reversals)]_vars

\* C10: reverse_full_transaction on a transaction whose state is not COMMITTED
\* raises NonCommittedTransactionError, creates no Reversal, sends no
\* TRANSACTION_REVERSED and leaves the balance as it was.
NonCommittedNotReversed_C10 ==
    [][\A t \in transactions, key \in ReversalKeys :
            (/\ ReverseFullTransaction(t, key)
             /\ t.state # COMMITTED)
            => (/\ result'.err = "NonCommittedTransactionError"
                /\ reversals' = reversals
                /\ ~result'.signal
                /\ balance(t.ledger)' = balance(t.ledger))]_vars

\* C11: reverse_full_transaction on a transaction that backs an Adjustment
\* raises CannotReverseAdjustmentError and writes no Reversal, and no
\* transaction that backs an Adjustment ever has a Reversal.
AdjustmentNeverReversed_C11 ==
    [][/\ \A t \in transactions, key \in ReversalKeys :
            (/\ ReverseFullTransaction(t, key)
             /\ AdjustmentsOf(t) # {})
            => (/\ result'.err = "CannotReverseAdjustmentError"
                /\ reversals' = reversals)
       /\ (\A t \in transactions : AdjustmentsOf(t) # {} => ReversalsOf(t) = {})'
      ]_vars

\* C12: no ledger's lock has two holders, and acquire_lock on a ledger whose
\* lock is held returns null and leaves every lock as it was, for any actor and
\* under any sequence of acquire_lock, release_lock and lock() calls.
LockMutualExclusion_C12 ==
    [][/\ \A ledger \in Ledgers :
            Cardinality({held \in locks' : held[1] = ledger}) <= 1
       /\ \A actor \in Actors, ledger \in Ledgers :
            (/\ AcquireLock(actor, ledger)
             /\ \E held \in locks : held[1] = ledger)
            => (/\ result'.ret = NoRow
                /\ locks' = locks)]_vars

\* C12's case: acquire_lock has just returned null on a ledger whose lock
\* another actor holds
AcquireRefused_C12 ==
    /\ result.op = "acquire_lock"
    /\ result.ret = NoRow
    /\ locks # {}

\* C13: acquire_lock on a ledger returns a token exactly when that ledger's
\* lock is free, whatever the other ledgers' locks are, and acquire_lock and
\* release_lock leave the lock of every other ledger as it was.
LockPerLedger_C13 ==
    [][\A actor \in Actors, ledger \in Ledgers :
         LET others(held) == {h \in held : h[1] # ledger}
         IN /\ AcquireLock(actor, ledger)
               => /\ (result'.ret # NoRow) <=> (\A h \in locks : h[1] # ledger)
                  /\ others(locks') = others(locks)
            /\ ReleaseLock(actor, ledger)
               => others(locks') = others(locks)]_vars

\* C13's case: a token was handed out for one ledger while another actor
\* holds the lock of the other ledger
AcquiredBesideOtherLock_C13 ==
    /\ result.op = "acquire_lock"
    /\ \E token \in locks, other \in locks :
         /\ result.ret = LockToken(token[1], token[2])
         /\ other[1] # token[1]
         /\ other[2] # token[2]

\* C14: entering lock(ledger) while the ledger's lock is held raises
\* LedgerLockAttemptFailed, does not run the body and leaves the lock with its
\* holder.
LockScopeRefused_C14 ==
    [][\A actor \in Actors, ledger \in Ledgers :
            (/\ EnterLockScope(actor, ledger)
             /\ \E held \in locks : held[1] = ledger)
            => (/\ result'.err = "LedgerLockAttemptFailed"
                /\ calls' = calls
                /\ locks' = locks)]_vars

\* C14's case: lock() has just been refused and the lock is still held
LockScopeRefusedHeld_C14 ==
    /\ result.op = "lock"
    /\ result.err = "LedgerLockAttemptFailed"
    /\ locks # {}

\* C15: when the scope of lock(ledger) is left the ledger's lock is free, on
\* every exit path: an actor that is inside no call holds no lock, also after
\* create_transaction returned or raised LedgerBalanceExceeded, and a
\* create_transaction started while no call is in progress is never refused
\* with LedgerLockAttemptFailed.
LockFreedOnExit_C15 ==
    [][/\ \A actor \in Actors :
            ExitLock(actor) => \A held \in locks' : held[1] # calls[actor].ledger
       /\ \A actor \in Actors, held \in locks' :
            calls'[actor].pc = "idle" => held[2] # actor
       /\ \A actor \in Actors, ledger \in Ledgers, quantity \in Quantities,
             key \in Keys :
            (/\ BeginCreateTransaction(actor, ledger, quantity, key, CREATED)
             /\ \A other \in Actors : calls[other].pc = "idle")
            => result'.err # "LedgerLockAttemptFailed"]_vars

\* C15's case: create_transaction has left the scope by raising
\* LedgerBalanceExceeded, and no lock is held
RaisedAndFreed_C15 ==
    /\ result.op = "create_transaction"
    /\ result.err = "LedgerBalanceExceeded"
    /\ locks = {}

\* C16: release_lock on a ledger whose lock is not held raises nothing and
\* leaves every lock as it was; after any release_lock the ledger's lock is
\* free, so a second release_lock changes nothing.
ReleaseIdempotent_C16 ==
    [][\A actor \in Actors, ledger \in Ledgers :
            ReleaseLock(actor, ledger)
            => (/\ result'.err = "ok"
                /\ \A held \in locks' : held[1] # ledger
                /\ (\A held \in locks : held[1] # ledger) => locks' = locks
                /\ (release_lock(ledger).locks)' = locks')]_vars

\* C16's case: release_lock has just returned and the other ledger's lock is
\* still held
ReleasedBesideOtherLock_C16 ==
    /\ result.op = "release_lock"
    /\ result.err = "ok"
    /\ locks # {}

\* C17: create_transaction called while another actor holds the ledger's lock
\* raises LedgerLockAttemptFailed, writes no Transaction and leaves the balance
\* and the holder's lock as they were.
CreateRefusedUnderLock_C17 ==
    [][\A actor \in Actors, ledger \in Ledgers, quantity \in Quantities,
          key \in Keys :
            (/\ BeginCreateTransaction(actor, ledger, quantity, key, CREATED)
             /\ \E held \in locks : held[1] = ledger /\ held[2] # actor)
            => (/\ result'.err = "LedgerLockAttemptFailed"
                /\ transactions' = transactions
                /\ balance(ledger)' = balance(ledger)
                /\ calls' = calls
                /\ locks' = locks)]_vars

\* C17's case: create_transaction has just been refused while the other actor
\* is inside create_transaction and holds the lock
CreateRefusedHeld_C17 ==
    /\ result.op = "create_transaction"
    /\ result.err = "LedgerLockAttemptFailed"
    /\ \E held \in locks : calls[held[2]].pc \in {"check", "write", "exit"}

\* C18 as stated: a create_transaction call started while another actor is
\* inside create_transaction with the same (ledger, idempotency_key) returns
\* the one row stored under that key.
ConcurrentCreatorsShareRow_C18 ==
    [][\A actor \in Actors, ledger \in Ledgers, quantity \in Quantities,
          key \in Keys :
            (/\ BeginCreateTransaction(actor, ledger, quantity, key, CREATED)
             /\ \E other \in Actors \ {actor} :
                  /\ calls[other].pc # "idle"
                  /\ calls[other].ledger = ledger
                  /\ calls[other].idempotency_key = key)
            => (/\ result'.err # "LedgerLockAttemptFailed"
                /\ Cardinality(TransactionLookup(ledger, key)') <= 1)]_vars

\* C18 amended: a (ledger, idempotency_key) never has two Transaction rows; a
\* create_transaction call started while another actor is inside
\* create_transaction with the same ledger and key raises
\* LedgerLockAttemptFailed and writes nothing; every call that returns, returns
\* the one row stored under its ledger and key.
ConcurrentCreatorsOneRow_C18 ==
    [][/\ \A ledger \in Ledgers, key \in Keys :
            Cardinality(TransactionLookup(ledger, key)') <= 1
       /\ \A actor \in Actors, ledger \in Ledgers, quantity \in Quantities,
             key \in Keys :
            (/\ BeginCreateTransaction(actor, ledger, quantity, key, CREATED)
             /\ \E other \in Actors \ {actor} :
                  /\ calls[other].pc # "idle"
                  /\ calls[other].ledger = ledger
                  /\ calls[other].idempotency_key = key)
            => (/\ result'.err = "LedgerLockAttemptFailed"
                /\ transactions' = transactions)
       /\ \A actor \in Actors :
            (ExitLock(actor) /\ calls[actor].err = "ok")
            => (/\ result'.ret = <<calls[actor].ledger, calls[actor].idempotency_key>>
                /\ Cardinality(TransactionLookup(calls[actor].ledger,
                                                 calls[actor].idempotency_key)) = 1)
      ]_vars

\* C18's case: a creator was refused while the other actor, inside
\* create_transaction, has written the row and not yet returned it
CreatorRefusedRowWritten_C18 ==
    /\ result.op = "create_transaction"
    /\ result.err = "LedgerLockAttemptFailed"
    /\ \E other \in Actors :
         /\ calls[other].pc = "exit"
         /\ calls[other].ret # NoRow
         /\ TransactionLookup(calls[other].ledger, calls[other].idempotency_key) # {}

AdjustmentAddsTransaction_C20 ==
    [][\A ledger \in AdjustmentLedgers, quantity \in Quantities,
          uuid \in AdjustmentUuids \cup {NoUuid}, key \in Keys \cup {None} :
            (/\ CreateAdjustment(ledger, quantity, uuid, key)
             /\ result'.err = "ok")
            => (/\ \E t \in transactions' \ transactions :
                     /\ transactions' = transactions \cup {t}
                     /\ t.ledger = ledger
                     /\ t.quantity = quantity
                     /\ t.state = COMMITTED
                     /\ \E a \in adjustments' \ adjustments :
                          /\ adjustments' = adjustments \cup {a}
                          /\ a.transaction = TxId(t)
                /\ balance(ledger)' = balance(ledger) + quantity)]_vars

\* C21: a create_adjustment call that fails raises AdjustmentCreationError and
\* leaves the transactions, the Adjustments and the balance as they were; a
\* quantity the balance does not cover and a reused adjustment uuid both fail.
AdjustmentFailureRollsBack_C21 ==
    [][\A ledger \in AdjustmentLedgers, quantity \in Quantities,
          uuid \in AdjustmentUuids \cup {NoUuid}, key \in Keys \cup {None} :
            CreateAdjustment(ledger, quantity, uuid, key)
            => /\ (\/ quantity < 0 /\ balance(ledger) + quantity < 0
                   \/ \E a \in adjustments : a.uuid = uuid)
                  => result'.err # "ok"
               /\ result'.err # "ok"
                  => (/\ result'.err = "AdjustmentCreationError"
                      /\ transactions' = transactions
                      /\ adjustments' = adjustments
                      /\ balance(ledger)' = balance(ledger))]_vars

\* C21's case: create_adjustment has just failed on a ledger that has
\* transactions and an Adjustment
AdjustmentFailed_C21 ==
    /\ result.op = "create_adjustment"
    /\ result.err = "AdjustmentCreationError"
    /\ adjustments # {}

\* C22: create_deposit with a quantity that is zero or negative raises
\* DepositCreationError and writes nothing: transactions, Deposits and balance
\* are as they were.
NonPositiveDepositRefused_C22 ==
    [][\A ledger \in AdjustmentLedgers, quantity \in DepositQuantities,
          uuid \in DepositUuids \cup {NoUuid}, key \in Keys \cup {None} :
            (/\ CreateDeposit(ledger, quantity, uuid, key)
             /\ quantity <= 0)
            => (/\ result'.err = "DepositCreationError"
                /\ transactions' = transactions
                /\ deposits' = deposits
                /\ balance(ledger)' = balance(ledger))]_vars

\* C22's case: create_deposit has failed where no key and no uuid is taken
\* yet, so only the quantity can have been refused
DepositRefusedOnEmpty_C22 ==
    /\ result.op = "create_deposit"
    /\ result.err = "DepositCreationError"
    /\ deposits = {}
    /\ transactions = {}

\* C23: a create_deposit call that succeeds adds exactly one Transaction,
\* COMMITTED, of the positive quantity given, adds exactly one Deposit linked
\* to it with that desired_deposit_quantity, and raises the balance by it.
DepositAddsTransaction_C23 ==
    [][\A ledger \in AdjustmentLedgers, quantity \in DepositQuantities,
          uuid \in DepositUuids \cup {NoUuid}, key \in Keys \cup {None} :
            (/\ CreateDeposit(ledger, quantity, uuid, key)
             /\ result'.err = "ok")
            => (/\ \E t \in transactions' \ transactions :
                     /\ transactions' = transactions \cup {t}
                     /\ t.quantity = quantity
                     /\ t.quantity > 0
                     /\ t.state = COMMITTED
                     /\ \E d \in deposits' \ deposits :
                          /\ deposits' = deposits \cup {d}
                          /\ d.transaction = TxId(t)
                          /\ d.desired_deposit_quantity = t.quantity
                /\ balance(ledger)' = balance(ledger) + quantity)]_vars

\* C24: create_deposit called again with the uuid and the idempotency key of
\* a Deposit that exists raises DepositCreationError and leaves the Deposits,
\* the transactions and the balance as they were.
DepositRepeatFails_C24 ==
    [][\A ledger \in AdjustmentLedgers, quantity \in DepositQuantities,
          uuid \in DepositUuids, key \in Keys \cup {None} :
            (/\ CreateDeposit(ledger, quantity, uuid, key)
             /\ \E d \in deposits :
                  /\ d.uuid = uuid
                  /\ d.transaction = <<ledger, DepositTransactionKey(key)>>)
            => (/\ result'.err = "DepositCreationError"
                /\ deposits' = deposits
                /\ transactions' = transactions
                /\ balance(ledger)' = balance(ledger))]_vars

\* C24's case: create_deposit has failed although its quantity was positive,
\* on a ledger that has a Deposit under a caller's uuid
DepositRepeated_C24 ==
    /\ result.op = "create_deposit"
    /\ result.err = "DepositCreationError"
    /\ \E d \in deposits : d.uuid \in DepositUuids

\* C25: create_ledger called with the unit and the idempotency_key of a
\* Ledger that exists returns that Ledger, leaves exactly one Ledger with the
\* key, and leaves the ledger's transactions and balance as they were.
SecondCreateLedgerChangesNothing_C25 ==
    [][\A unit \in UnitChoices \cup {None}, key \in Ledgers,
          initial_deposit \in InitialDepositQuantities, metadata \in LedgerMetadata :
            LET existing == LedgerLookup(IF unit = None THEN USD_CENTS ELSE unit, key)
            IN (/\ CreateLedger(unit, key, initial_deposit, metadata)
                /\ existing # {})
               => (/\ result'.err = "ok"
                   /\ result'.ret \in existing
                   /\ Cardinality({l \in ledgers' : l.idempotency_key = key}) = 1
                   /\ transactions' = transactions
                   /\ balance(key)' = balance(key))]_vars

\* C26: a ledger never holds more than one initial-deposit Transaction,
\* however often create_ledger was called for its key with an initial_deposit.
OneInitialDeposit_C26 ==
    \A l \in ledgers : Cardinality(InitialDepositTransactions(l)) <= 1

\* C27: create_ledger with an initial_deposit and without both sales-contract
\* reference fields fails with LedgerCreationError and persists no Ledger, no
\* Transaction and no Deposit.
UndocumentedDepositRefused_C27 ==
    [][\A unit \in UnitChoices \cup {None}, key \in Ledgers,
          initial_deposit \in InitialDepositQuantities, metadata \in LedgerMetadata :
            (/\ CreateLedger(unit, key, initial_deposit, metadata)
             /\ initial_deposit # 0
             /\ ~(SalesContractFields \subseteq metadata))
            => (/\ result'.err = "LedgerCreationError"
                /\ ledgers' = ledgers
                /\ transactions' = transactions
                /\ deposits' = deposits)]_vars

\* C28: balance(committed_only=True) returns the sum, over the ledger's
\* COMMITTED transactions, of the quantity plus the Reversal's quantity;
\* transactions in any other state contribute nothing.
CommittedOnlyBalance_C28 ==
    [][\A ledger \in AdjustmentLedgers :
          Balance(ledger, {"committed_only"})
          => /\ result'.err = "ok"
             /\ result'.ret =
                  subset_balance(ledger, {t \in transactions : t.state = COMMITTED})]_vars

\* C29: total_deposits of a ledger is the sum of the quantities of exactly
\* the ledger's transactions that a Deposit or an Adjustment points at,
\* negative adjustments included; create_transaction, a change of state and
\* reverse_full_transaction leave it as it was.
TotalDepositsFundingOnly_C29 ==
    [][\A ledger \in AdjustmentLedgers :
          /\ (total_deposits(ledger) =
                 SumQuantity(LedgerTransactions(ledger))
                 - SumQuantity({t \in LedgerTransactions(ledger) :
                                  /\ \A d \in deposits : d.transaction # TxId(t)
                                  /\ \A a \in adjustments : a.transaction # TxId(t)}))'
          /\ (CallCreateTransactionAdjusted \/ CallReverseFullTransaction \/ CallSetState)
             => total_deposits(ledger)' = total_deposits(ledger)]_vars

\* C29's case: the ledger holds a Deposit of 2, and an ordinary transaction
\* beside it has just been reversed
SpendReversedBesideDeposit_C29 ==
    /\ result.op = "reverse_full_transaction"
    /\ result.err = "ok"
    /\ \E t \in transactions :
         DepositsOf(t) = {} /\ AdjustmentsOf(t) = {} /\ ReversalsOf(t) # {}
    /\ \E t \in transactions : DepositsOf(t) # {} /\ t.quantity = 2
    /\ \E ledger \in AdjustmentLedgers : total_deposits(ledger) = 2

\* C30: subset_balance of a ledger over any collection of transactions is
\* its subset_balance over the collection's transactions of that ledger (the
\* rows of other ledgers count for nothing), and over all transactions of all
\* ledgers it is the ledger's balance.
SubsetBalanceOwnRowsOnly_C30 ==
    \A ledger \in Ledgers :
        /\ \A S \in SUBSET transactions :
              subset_balance(ledger, S)
                = subset_balance(ledger, S \cap LedgerTransactions(ledger))
        /\ subset_balance(ledger, transactions) = balance(ledger)

\* C30's case: a ledger with a reversed transaction, beside another ledger
\* whose transactions do not sum to zero
SupersetOfTwoLedgers_C30 ==
    \E ledger \in Ledgers :
        /\ \E t \in LedgerTransactions(ledger) : ReversalsOf(t) # {}
        /\ SumQuantity(transactions \ LedgerTransactions(ledger)) # 0

\* C31 as stated: subset_balance for a learner is the sum of that learner's
\* transactions of the ledger and their reversals, also when the queryset
\* passed holds other learners' rows beside the learner's.
UserBalanceFromSuperset_C31 ==
    \A ledger \in Ledgers, user \in Users, S \in SUBSET transactions :
        {t \in transactions : t.lms_user_id = user} \subseteq S
        => subset_balance(ledger, S)
             = LET rows == {t \in LedgerTransactions(ledger) : t.lms_user_id = user}
               IN SumQuantity(rows)
                  + SumQuantity({r \in reversals :
                                   \E t \in rows : r.transaction = TxId(t)})

\* C31 amended: subset_balance over a queryset filtered by a learner is the
\* sum of that learner's transactions of the ledger and their reversals,
\* whatever rows of other ledgers the queryset holds; subset_balance filters
\* by ledger only, so an unfiltered queryset counts every learner's rows.
UserBalanceFromFilteredQueryset_C31 ==
    \A ledger \in Ledgers, S \in SUBSET transactions :
        /\ \A user \in Users :
              subset_balance(ledger, {t \in S : t.lms_user_id = user})
                = LET rows == {t \in S : t.ledger = ledger /\ t.lms_user_id = user}
                  IN SumQuantity(rows)
                     + SumQuantity({r \in reversals :
                                      \E t \in rows : r.transaction = TxId(t)})
        /\ subset_balance(ledger, S)
             = subset_balance(ledger, {t \in S : t.lms_user_id = NoUser})
               + subset_balance(ledger, {t \in S : t.lms_user_id = 1})
               + subset_balance(ledger, {t \in S : t.lms_user_id = 2})

\* C31's case: a ledger holds a reversed transaction of one learner and a
\* transaction of another learner
TwoUsersOneReversed_C31 ==
    \E ledger \in Ledgers, t1, t2 \in transactions :
        /\ t1.ledger = ledger /\ t2.ledger = ledger
        /\ t1.lms_user_id = 1 /\ t2.lms_user_id = 2
        /\ ReversalsOf(t1) # {}
        /\ t2.quantity # 0

\* C32: a transaction's state moves only from CREATED to PENDING, from
\* PENDING to COMMITTED, or to FAILED; a FAILED transaction stays FAILED, and
\* from then on its quantity is no part of the ledger's balance.
StateLifecycle_C32 ==
    [][/\ \A t \in transactions, x \in transactions' :
            TxId(x) = TxId(t)
            => /\ \/ x.state = t.state
                  \/ <<t.state, x.state>> \in {<<CREATED, PENDING>>, <<PENDING, COMMITTED>>}
                  \/ x.state = FAILED
               /\ t.state = FAILED => x.state = FAILED
       /\ (\A ledger \in Ledgers :
              balance(ledger)
                = subset_balance(ledger, {y \in transactions : y.state # FAILED}))'
      ]_vars

AllowListed(metadata) ==
    {metadata[i] : i \in {j \in DOMAIN metadata : metadata[j][1] \in TRANSACTION_METADATA_KEYS}}

\* C34: two keys made for the same ledger and quantity from metadata with at
\* least one allow-listed field are equal exactly when the allow-listed
\* fields have equal values; fields outside the allow-list do not matter.
KeyEqualIffAllowListedEqual_C34 ==
    \A a, b \in Actors :
        (/\ calls[a].pc = "key" /\ calls[b].pc = "key"
         /\ calls[a].ledger = calls[b].ledger
         /\ calls[a].quantity = calls[b].quantity
         /\ AllowListed(calls[a].metadata) # {}
         /\ AllowListed(calls[b].metadata) # {})
        => ((calls[a].idempotency_key = calls[b].idempotency_key)
            <=> (AllowListed(calls[a].metadata) = AllowListed(calls[b].metadata)))

\* C37: two keys made for the same ledger and quantity from the same
\* allow-listed fields and values, passed in different orders, are equal.
KeyOrderIndependent_C37 ==
    \A a, b \in Actors :
        (/\ calls[a].pc = "key" /\ calls[b].pc = "key"
         /\ calls[a].ledger = calls[b].ledger
         /\ calls[a].quantity = calls[b].quantity
         /\ Len(calls[a].metadata) = 2
         /\ \A i \in DOMAIN calls[a].metadata :
              calls[a].metadata[i][1] \in TRANSACTION_METADATA_KEYS
         /\ calls[b].metadata = <<calls[a].metadata[2], calls[a].metadata[1]>>)
        => calls[a].idempotency_key = calls[b].idempotency_key

\* C35: every Reversal is COMMITTED and its quantity is the negation of its
\* transaction's quantity, so the transaction and its Reversal together add
\* exactly 0 to the balance.
ReversalNegatesTransaction_C35 ==
    \A r \in reversals :
        /\ r.state = COMMITTED
        /\ \E t \in transactions :
             /\ r.transaction = TxId(t)
             /\ r.quantity = 0 - t.quantity
             /\ subset_balance(t.ledger, {t}) = 0

\* C35's case: reverse_full_transaction has just returned the Reversal of a
\* debit, beside another transaction of the ledger
DebitReversed_C35 ==
    /\ result.op = "reverse_full_transaction"
    /\ result.err = "ok"
    /\ \E r \in reversals, t \in transactions :
         /\ r.transaction = TxId(t)
         /\ t.quantity < 0
         /\ balance(t.ledger) > 0

\* C36: per ledger at most one actor is between reading the balance and
\* persisting the Transaction inside create_transaction, and while an actor
\* is there the ledger's balance stays what the actor has read.
BalanceReadStillCurrent_C36 ==
    [][/\ (\A a, b \in Actors :
              (/\ a # b
               /\ calls[a].pc \in {"check", "write"}
               /\ calls[b].pc \in {"check", "write"})
              => calls[a].ledger # calls[b].ledger)'
       /\ \A actor \in Actors :
            (calls[actor].pc = "write" /\ calls'[actor].pc = "write")
            => balance(calls[actor].ledger)' = balance(calls[actor].ledger)
      ]_vars

\* C38: a POST to the reverse-transaction view for a transaction that has a
\* Reversal, whatever key it was created under, is answered with 400
\* 'Transaction Reversal already exists', writes no Reversal and sends no
\* TRANSACTION_REVERSED.
PostOnReversedRefused_C38 ==
    [][\A t \in transactions :
          (ReversalsOf(t) # {} /\ ReverseTransactionViewPost(t))
          => /\ result'.ret = <<"400", "Transaction Reversal already exists">>
             /\ reversals' = reversals
             /\ result'.signal = FALSE]_vars

\* C39: the Transaction every Adjustment points at is COMMITTED, is of the
\* Adjustment's ledger and has the Adjustment's adjustment_quantity, also
\* when create_adjustment was given the idempotency key of a transaction the
\* ledger already has.
AdjustmentMatchesTransaction_C39 ==
    \A a \in adjustments :
        \E t \in transactions :
            /\ a.transaction = TxId(t)
            /\ t.state = COMMITTED
            /\ t.ledger = a.ledger
            /\ t.quantity = a.adjustment_quantity

\* C40: whatever way concurrent create_adjustment calls with negative
\* quantities on one ledger interleave, the balance of the committed
\* transactions is never negative.
ConcurrentAdjustmentsCovered_C40 ==
    \A ledger \in Ledgers : balance(ledger) >= 0

====
